---- MODULE Spec2Model ----
(***************************************************************************)
(* State-machine model of the gemini_code_review command line tool:        *)
(* cli.py (main, ensure_repomix_available, dump_repo_to_xml, the prompts)  *)
(* and prompting.py (the API key check at import, generate_system_prompt,  *)
(* run_code_review).                                                       *)
(*                                                                         *)
(* Text is modelled as a sequence of tokens.  A token is one character     *)
(* ("7", "-", " ", "[") or a fixed run of characters of the source's       *)
(* literals ("Low", "USER_INSTRUCTIONS", a paragraph of the template).     *)
(* Optional values (None in Python) are records with an isNone field.      *)
(*                                                                         *)
(* A run starts with the arguments parsed (argparse's own exits are not    *)
(* runs of the model).  The outcome of every external call is chosen by    *)
(* the environment.  The token count, the timestamp and the column widths  *)
(* and alignments of the workbook are left out; unlink of the temporary    *)
(* file is taken to succeed.                                               *)
(***************************************************************************)
EXTENDS Integers, Sequences, FiniteSets, TLC

\* ------------------------------------------------------------------ bounds
\* Largest magnitude of an --issues flag value that is explored.
MaxCount == 123
\* Longest line (in characters) typed at the issue-count prompt.
MaxRawLen == 2
\* Largest number of issues in a model response.
MaxIssues == 2

\* ------------------------------------------------------- optional values
None == [isNone |-> TRUE]
Some(v) == [isNone |-> FALSE, val |-> v]

\* ------------------------------------------------------------ str helpers
\* str.isspace() of one character
IsSpace(c) == c \in {" ", "\t"}

RECURSIVE LStrip(_)
LStrip(s) == IF s = <<>> \/ ~IsSpace(Head(s)) THEN s ELSE LStrip(Tail(s))

RECURSIVE RStrip(_)
RStrip(s) ==
    IF s = <<>> \/ ~IsSpace(s[Len(s)]) THEN s ELSE RStrip(SubSeq(s, 1, Len(s) - 1))

\* str.strip()
Strip(s) == RStrip(LStrip(s))

\* s[i:].startswith(pat)
StartsWithAt(s, i, pat) ==
    /\ i + Len(pat) - 1 <= Len(s)
    /\ \A j \in 1..Len(pat) : s[i + j - 1] = pat[j]

\* pat in s
Contains(s, pat) == \E i \in 1..(Len(s) + 1) : StartsWithAt(s, i, pat)

\* number of non-overlapping occurrences, scanning from the left: s.count(pat)
RECURSIVE CountFrom(_, _, _)
CountFrom(s, i, pat) ==
    IF i > Len(s) THEN 0
    ELSE IF StartsWithAt(s, i, pat) THEN 1 + CountFrom(s, i + Len(pat), pat)
    ELSE CountFrom(s, i + 1, pat)

Count(s, pat) == CountFrom(s, 1, pat)

\* str.replace(old, new) for a non-empty old: every occurrence, scanning from
\* the left, the replacement text is not rescanned.
RECURSIVE ReplaceFrom(_, _, _, _)
ReplaceFrom(s, i, old, new) ==
    IF i > Len(s) THEN <<>>
    ELSE IF StartsWithAt(s, i, old)
         THEN new \o ReplaceFrom(s, i + Len(old), old, new)
         ELSE <<s[i]>> \o ReplaceFrom(s, i + 1, old, new)

Replace(s, old, new) == ReplaceFrom(s, 1, old, new)

\* ------------------------------------------------- int <-> decimal text
Digits == <<"0", "1", "2", "3", "4", "5", "6", "7", "8", "9">>

IsDigit(c) == \E d \in 1..10 : Digits[d] = c

DigitVal(c) == (CHOOSE d \in 1..10 : Digits[d] = c) - 1

RECURSIVE NatToStr(_)
NatToStr(n) ==
    IF n < 10 THEN <<Digits[n + 1]>>
    ELSE NatToStr(n \div 10) \o <<Digits[(n % 10) + 1]>>

\* str(n), which is what an f-string field {n} of an int produces
IntToStr(n) == IF n < 0 THEN <<"-">> \o NatToStr(0 - n) ELSE NatToStr(n)

RECURSIVE DigitsToNat(_)
DigitsToNat(s) ==
    IF s = <<>> THEN 0
    ELSE 10 * DigitsToNat(SubSeq(s, 1, Len(s) - 1)) + DigitVal(s[Len(s)])

\* the texts int(raw) accepts: an optional sign and one or more digits
IsIntLiteral(s) ==
    LET body == IF s # <<>> /\ Head(s) \in {"-", "+"} THEN Tail(s) ELSE s
    IN  /\ body # <<>>
        /\ \A i \in 1..Len(body) : IsDigit(body[i])

\* int(raw) of a text that IsIntLiteral
StrToInt(s) ==
    IF Head(s) = "-" THEN 0 - DigitsToNat(Tail(s))
    ELSE IF Head(s) = "+" THEN DigitsToNat(Tail(s))
    ELSE DigitsToNat(s)

\* ------------------------------------------------------------ prompting.py
\* the value a Python `if x:` test gives an optional text
Truthy(opt) == ~opt.isNone /\ opt.val # <<>>

\* module import: os.getenv("GOOGLE_API_KEY") and the check that raises
\* ValueError; TRUE when the import of prompting raises
PromptingImportRaises(key) == ~Truthy(key)

\* the template's text before and after the issue count
PromptLead == <<"# Role", "# Task", "You'll identify ">>

PromptTail == <<" of the most impactful, actionable issues", "# Issue Types">>

Placeholder == <<"[", "USER_INSTRUCTIONS", "]">>

OutputFormat == <<"# Output Format">>

UserInstructionsHeading == <<"# User Instructions">>

ClauseLead ==
    UserInstructionsHeading \o <<"The user provided some additional instructions", "---">>

ClauseEnd == <<"---">>

\* the f-string of the template, with the issue count formatted into it
PromptTemplate(n) ==
    PromptLead \o IntToStr(n) \o PromptTail \o Placeholder \o OutputFormat

user_instructions_clause(text) == ClauseLead \o text \o ClauseEnd

\* mutant: the issue count is not formatted into the template (the default stays)
generate_system_prompt_fixed_count(n_issues_to_surface, user_instructions) ==
    IF Truthy(user_instructions)
    THEN Replace(PromptTemplate(10), Placeholder,
                 user_instructions_clause(user_instructions.val))
    ELSE Replace(PromptTemplate(10), Placeholder, <<>>)

\* mutant: the placeholder is replaced only when instructions are given, and
\* the block leaves the instructions out
generate_system_prompt_no_else(n_issues_to_surface, user_instructions) ==
    IF Truthy(user_instructions)
    THEN Replace(PromptTemplate(n_issues_to_surface), Placeholder,
                 user_instructions_clause(<<>>))
    ELSE PromptTemplate(n_issues_to_surface)

generate_system_prompt(n_issues_to_surface, user_instructions) ==
    IF Truthy(user_instructions)
    THEN Replace(PromptTemplate(n_issues_to_surface), Placeholder,
                 user_instructions_clause(user_instructions.val))
    ELSE Replace(PromptTemplate(n_issues_to_surface), Placeholder, <<>>)

\* ------------------------------------------------------------------ cli.py
\* what subprocess.run(..., check=True) can do
SubprocessOutcomes == {"ok", "CalledProcessError", "FileNotFoundError", "PermissionError"}

\* mutant: only a non-zero exit is caught, a missing executable is not
ensure_repomix_available_narrow(outcome) ==
    IF outcome = "ok" THEN "True"
    ELSE IF outcome = "CalledProcessError" THEN "False"
    ELSE "raise"

\* "True" / "False" as returned, "raise" when the exception is not caught
ensure_repomix_available(outcome) ==
    IF outcome = "ok" THEN "True"
    ELSE IF outcome \in {"CalledProcessError", "FileNotFoundError"} THEN "False"
    ELSE "raise"

\* input is None on EOFError, else the line typed
prompt_for_int(input, default) ==
    IF input.isNone THEN default
    ELSE LET raw == Strip(input.val)
         IN  IF raw = <<>> THEN default
             ELSE IF ~IsIntLiteral(raw) THEN default
             ELSE IF StrToInt(raw) <= 0 THEN default
             ELSE StrToInt(raw)

prompt_for_optional_text(input) ==
    IF input.isNone THEN None
    ELSE LET raw == Strip(input.val)
         IN  IF raw = <<>> THEN None ELSE Some(raw)

\* ----------------------------------------------- cli.py: the spreadsheet
\* CodebaseIssue: eight text fields
MkIssue(title, severity, effort) ==
    [category |-> <<"Testing">>, title |-> title, rationale |-> <<"why">>,
     detailed_description |-> <<"details">>, severity |-> severity,
     location |-> <<"src/">>, estimated_effort |-> effort,
     implementation_plan |-> <<"plan">>]

desired_columns ==
    <<"category", "title", "severity", "location", "estimated_effort", "rationale",
      "detailed_description", "implementation_plan", "copy_paste">>

copy_paste_md(issue) ==
    <<"### [">> \o issue.category \o <<"] ">> \o issue.title
    \o <<"- Severity: ">> \o issue.severity
    \o <<"- Location: ">> \o issue.location
    \o <<"- Effort: ">> \o issue.estimated_effort
    \o <<"- Rationale: ">> \o issue.rationale
    \o <<"- Implementation plan: ">> \o issue.implementation_plan
    \o issue.detailed_description

\* the dict appended to rows for one issue
RowOf(issue) ==
    [category |-> issue.category, title |-> issue.title, severity |-> issue.severity,
     location |-> issue.location, estimated_effort |-> issue.estimated_effort,
     rationale |-> issue.rationale, implementation_plan |-> issue.implementation_plan,
     detailed_description |-> issue.detailed_description,
     copy_paste |-> copy_paste_md(issue)]

\* mutant: the loop stops one issue short
BuildRowsShort(response_issues) ==
    [i \in 1..(Len(response_issues) - 1) |-> RowOf(response_issues[i])]

\* the loop over review_response.issues
BuildRows(response_issues) ==
    [i \in 1..Len(response_issues) |-> RowOf(response_issues[i])]

NoFill == "none"

Cell(value) == [value |-> value, fill |-> NoFill]

\* df.reindex(columns=desired_columns) and df.to_excel(index=False): a header
\* row of the column names, then one row per element of rows
to_excel(rows) ==
    <<[c \in 1..Len(desired_columns) |-> Cell(<<desired_columns[c]>>)]>>
    \o [i \in 1..Len(rows) |->
          [c \in 1..Len(desired_columns) |-> Cell(rows[i][desired_columns[c]])]]

PaletteLabels ==
    {<<"Low">>, <<"Medium">>, <<"High">>, <<"Critical">>, <<"Very", " ", "High">>}

fill_for_value ==
    [label \in PaletteLabels |->
        CASE label = <<"Low">> -> "FFC6EFCE"
          [] label = <<"Medium">> -> "FFFFEB9C"
          [] label = <<"High">> -> "FFF8CBAD"
          [] label = <<"Critical">> -> "FFFFC7CE"
          [] label = <<"Very", " ", "High">> -> "FFFFC7CE"]

\* mutant: the cell's value is looked up as it is, without strip()
FilledCellNoStrip(cell) ==
    IF cell.value \in DOMAIN fill_for_value
    THEN [cell EXCEPT !.fill = fill_for_value[cell.value]]
    ELSE cell

\* one severity or effort cell after the colour-coding loop
FilledCell(cell) ==
    LET value == Strip(cell.value)
    IN  IF value \in DOMAIN fill_for_value
        THEN [cell EXCEPT !.fill = fill_for_value[value]]
        ELSE cell

\* index(name) + 1 in desired_columns
ColumnIndex(name) == CHOOSE c \in 1..Len(desired_columns) : desired_columns[c] = name

\* the loop over rows 2..max_row
ColourCode(sheet) ==
    [r \in 1..Len(sheet) |->
        IF r < 2 THEN sheet[r]
        ELSE [c \in 1..Len(desired_columns) |->
                IF c \in {ColumnIndex("severity"), ColumnIndex("estimated_effort")}
                THEN FilledCell(sheet[r][c])
                ELSE sheet[r][c]]]

\* the rows of the ABOUT sheet that depend on the run (the timestamp, the
\* path, the file name and the token count are left out)
AboutSheet(n_requested, response_issues, instr) ==
    [Issues_Requested |-> n_requested,
     Issues_Returned |-> Len(response_issues),
     User_Instructions |-> IF Truthy(instr) THEN instr.val ELSE <<>>,
     Model |-> "gemini-2.5-pro"]

\* the workbook the ExcelWriter block saves
Workbook(n_requested, response_issues, instr) ==
    [Review |-> ColourCode(to_excel(BuildRows(response_issues))),
     ABOUT |-> AboutSheet(n_requested, response_issues, instr)]

\* ------------------------------------------------------------- the inputs
DefaultIssues == 10

\* values of the --issues flag (argparse type=int takes any integer)
IssueFlagValues == {0 - MaxCount, 0 - 1, 0, 1, DefaultIssues, MaxCount}

\* values of the --instructions flag (taken as given, not stripped)
InstructionFlagValues ==
    {<<>>, <<" ">>, <<"focus", " ", "on", " ", "tests">>, Placeholder}

RawAlphabet == {" ", "-", "0", "7", "x"}

\* lines typed at the issue-count prompt
RawLines == UNION {[1..n -> RawAlphabet] : n \in 0..MaxRawLen}

\* lines typed at the instructions prompt
InstructionLines ==
    {<<>>, <<" ">>, <<" ", "focus", " ", "on", " ", "tests", " ">>, Placeholder}

\* None stands for end of input (EOFError)
Typed(lines) == {None} \cup {Some(l) : l \in lines}

\* the values of GOOGLE_API_KEY in the environment: unset, empty, set
ApiKeyValues == {None, Some(<<>>), Some(<<"key">>)}

IssuePool ==
    {MkIssue(<<"t1">>, <<"Low">>, <<"Very", " ", "High">>),
     MkIssue(<<"t2">>, <<" ", "Low", " ">>, <<"low">>),
     MkIssue(<<"t3">>, <<"Very", " ", "High">>, <<"Critical">>),
     MkIssue(<<"t4">>, <<"Urgent">>, <<"Medium">>)}

\* the issue lists a CodeReviewResponse can hold
Responses == UNION {[1..n -> IssuePool] : n \in 0..MaxIssues}

TempXml == <<"<repomix>">>

\* --------------------------------------------------------------- the state
VARIABLES
    ns,               \* cli.py:142 the argparse Namespace
    api_key,          \* prompting.py:23 GOOGLE_API_KEY in the environment
    run_code_review,  \* cli.py:15-18 "function", or "None" after a failed import
    pc,               \* cli.py:141-383 where main is
    exit_code,        \* cli.py:141-383 what main returned
    raised,           \* cli.py:145 the exception that left main, "" when none
    issues,           \* cli.py:152-157 main's local issues
    instructions,     \* cli.py:153-159 main's local instructions
    dump,             \* cli.py:35-76 dump_repo_to_xml: "not_called", "running",
                      \* "returned", "raised"
    tmp,              \* cli.py:40-41 the temporary XML file: "none", "exists", "deleted"
    xml,              \* cli.py:162 main's local xml
    calls,            \* cli.py:24, 54, 198, 259 the external actions made, in order
    prompts,          \* cli.py:118, 135 the interactive prompts shown, in order
    model_call,       \* prompting.py:106-119 arguments and system prompt of the call
    review_response,  \* cli.py:198 main's local review_response
    workbook          \* cli.py:259 the spreadsheet file written

vars ==
    <<ns, api_key, run_code_review, pc, exit_code, raised, issues, instructions,
      dump, tmp, xml, calls, prompts, model_call, review_response, workbook>>

Namespaces ==
    [issues : {None} \cup {Some(n) : n \in IssueFlagValues},
     instructions : {None} \cup {Some(t) : t \in InstructionFlagValues},
     keep : BOOLEAN,
     non_interactive : BOOLEAN]

\* the state when main is entered with its arguments parsed: the module
\* import has run, and run_code_review is None when prompting failed to import
Init ==
    /\ ns \in Namespaces
    /\ api_key \in ApiKeyValues
    /\ run_code_review = IF PromptingImportRaises(api_key) THEN "None" ELSE "function"
    /\ pc = "ensure"
    /\ exit_code = None
    /\ raised = ""
    /\ issues = None
    /\ instructions = None
    /\ dump = "not_called"
    /\ tmp = "none"
    /\ xml = None
    /\ calls = <<>>
    /\ prompts = <<>>
    /\ model_call = None
    /\ review_response = None
    /\ workbook = None

Call(kind, what, outcome) == [kind |-> kind, what |-> what, outcome |-> outcome]

\* main returns code
Return(code) == pc' = "done" /\ exit_code' = Some(code) /\ raised' = raised

\* an exception leaves main
Raise(exc) == pc' = "raised" /\ raised' = exc /\ exit_code' = exit_code

Goto(label) == pc' = label /\ exit_code' = exit_code /\ raised' = raised

\* main: the repomix --version probe
EnsureRepomix ==
    /\ pc = "ensure"
    /\ \E outcome \in SubprocessOutcomes :
         /\ calls' = Append(calls, Call("subprocess", "repomix --version", outcome))
         /\ CASE ensure_repomix_available(outcome) = "True" -> Goto("resolve_issues")
              [] ensure_repomix_available(outcome) = "False" -> Return(2)
              [] OTHER -> Raise(outcome)
    /\ UNCHANGED <<ns, api_key, run_code_review, issues, instructions, dump, tmp, xml,
                   prompts, model_call, review_response, workbook>>

\* main: issues from the flag, the prompt or the default
ResolveIssues ==
    /\ pc = "resolve_issues"
    /\ IF ~ns.non_interactive /\ ns.issues.isNone
       THEN \E input \in Typed(RawLines) :
              /\ issues' = Some(prompt_for_int(input, DefaultIssues))
              /\ prompts' = Append(prompts, "How many issues would you like surfaced?")
       ELSE /\ issues' = IF ns.issues.isNone THEN Some(DefaultIssues) ELSE ns.issues
            /\ prompts' = prompts
    /\ Goto("resolve_instructions")
    /\ UNCHANGED <<ns, api_key, run_code_review, instructions, dump, tmp, xml, calls,
                   model_call, review_response, workbook>>

\* main: instructions from the flag or the prompt
ResolveInstructions ==
    /\ pc = "resolve_instructions"
    /\ IF ~ns.non_interactive /\ ns.instructions.isNone
       THEN \E input \in Typed(InstructionLines) :
              /\ instructions' = prompt_for_optional_text(input)
              /\ prompts' = Append(prompts, "Any additional user instructions?")
       ELSE /\ instructions' = ns.instructions
            /\ prompts' = prompts
    /\ Goto("dump")
    /\ UNCHANGED <<ns, api_key, run_code_review, issues, dump, tmp, xml, calls,
                   model_call, review_response, workbook>>

\* dump_repo_to_xml, up to the creation of the temporary file; an exception
\* is caught by main, which returns 1
DumpCreateTemp ==
    /\ pc = "dump"
    /\ \E is_dir \in BOOLEAN, created \in BOOLEAN :
         IF is_dir /\ created
         THEN /\ tmp' = "exists"
              /\ dump' = "running"
              /\ Goto("dump_run")
         ELSE /\ tmp' = tmp
              /\ dump' = "raised"
              /\ Return(1)
    /\ UNCHANGED <<ns, api_key, run_code_review, issues, instructions, xml, calls,
                   prompts, model_call, review_response, workbook>>

\* the temporary file after subprocess.run(cmd, check=True) and its except
\* clauses: only FileNotFoundError and CalledProcessError have a clause, and
\* each unlinks the file unless keep is set (unlink is taken to succeed)
TmpAfterRun(outcome, keep) ==
    IF outcome \in {"FileNotFoundError", "CalledProcessError"} /\ ~keep
    THEN "deleted"
    ELSE "exists"

\* dump_repo_to_xml: the repomix run; every exception reaches main's
\* except clause, which returns 1
DumpRunRepomix ==
    /\ pc = "dump_run"
    /\ \E outcome \in SubprocessOutcomes :
         /\ calls' = Append(calls, Call("subprocess", "repomix --output", outcome))
         /\ tmp' = TmpAfterRun(outcome, ns.keep)
         /\ IF outcome = "ok"
            THEN dump' = dump /\ Goto("dump_read")
            ELSE dump' = "raised" /\ Return(1)
    /\ UNCHANGED <<ns, api_key, run_code_review, issues, instructions, xml, prompts,
                   model_call, review_response, workbook>>

\* dump_repo_to_xml: read_text and the finally block, which unlinks the file
\* unless keep is set, whether or not the read raised
DumpReadBack ==
    /\ pc = "dump_read"
    /\ \E read_ok \in BOOLEAN :
         /\ tmp' = IF ~ns.keep THEN "deleted" ELSE tmp
         /\ IF read_ok
            THEN xml' = Some(TempXml) /\ dump' = "returned" /\ Goto("check_model")
            ELSE xml' = xml /\ dump' = "raised" /\ Return(1)
    /\ UNCHANGED <<ns, api_key, run_code_review, issues, instructions, calls, prompts,
                   model_call, review_response, workbook>>

\* mutant: the test of run_code_review is left out
CheckModelIntegrationSkipped ==
    /\ pc = "check_model"
    /\ Goto("call_model")
    /\ UNCHANGED <<ns, api_key, run_code_review, issues, instructions, dump, tmp, xml,
                   calls, prompts, model_call, review_response, workbook>>

\* main: run_code_review is None
CheckModelIntegration ==
    /\ pc = "check_model"
    /\ IF run_code_review = "None" THEN Return(3) ELSE Goto("call_model")
    /\ UNCHANGED <<ns, api_key, run_code_review, issues, instructions, dump, tmp, xml,
                   calls, prompts, model_call, review_response, workbook>>

ModelCall(n, instr) ==
    Some([n_issues_to_surface |-> n, user_instructions |-> instr,
          system_prompt |-> generate_system_prompt(n, instr)])

\* mutant: a failed model call is tried once more
CallModelRetry ==
    /\ pc = "call_model"
    /\ model_call' = ModelCall(issues.val, instructions)
    /\ \E outcome \in {"raise"} \cup {"ok"} :
         /\ calls' = Append(calls, Call("network", "agent.run_sync", outcome))
         /\ IF outcome = "ok"
            THEN \E response \in Responses :
                   review_response' = Some(response) /\ Goto("write")
            ELSE /\ review_response' = review_response
                 /\ IF \E i \in 1..Len(calls) : calls[i].kind = "network"
                    THEN Return(4)
                    ELSE Goto("call_model")
    /\ UNCHANGED <<ns, api_key, run_code_review, issues, instructions, dump, tmp, xml,
                   prompts, workbook>>

\* main: run_code_review(xml, issues, instructions), which builds the system
\* prompt and runs the agent; any exception returns 4
CallModel ==
    /\ pc = "call_model"
    /\ model_call' = ModelCall(issues.val, instructions)
    /\ \E outcome \in {"raise"} \cup {"ok"} :
         /\ calls' = Append(calls, Call("network", "agent.run_sync", outcome))
         /\ IF outcome = "ok"
            THEN \E response \in Responses :
                   review_response' = Some(response) /\ Goto("write")
            ELSE review_response' = review_response /\ Return(4)
    /\ UNCHANGED <<ns, api_key, run_code_review, issues, instructions, dump, tmp, xml,
                   prompts, workbook>>

\* main: the rows, the ExcelWriter block with both sheets; any exception
\* returns 5 ("import" fails before the file is opened)
WriteSpreadsheet ==
    /\ pc = "write"
    /\ \E outcome \in {"ok", "import_error", "write_error"} :
         /\ calls' = IF outcome = "import_error" THEN calls
                     ELSE Append(calls, Call("file_write", "ExcelWriter", outcome))
         /\ IF outcome = "ok"
            THEN /\ workbook' = Some(Workbook(issues.val, review_response.val, instructions))
                 /\ Goto("print_json")
            ELSE /\ workbook' = workbook
                 /\ Return(5)
    /\ UNCHANGED <<ns, api_key, run_code_review, issues, instructions, dump, tmp, xml,
                   prompts, model_call, review_response>>

\* main: the JSON echo, whose exceptions are swallowed, and return 0
PrintJson ==
    /\ pc = "print_json"
    /\ Return(0)
    /\ UNCHANGED <<ns, api_key, run_code_review, issues, instructions, dump, tmp, xml,
                   calls, prompts, model_call, review_response, workbook>>

Next ==
    \/ EnsureRepomix
    \/ ResolveIssues
    \/ ResolveInstructions
    \/ DumpCreateTemp
    \/ DumpRunRepomix
    \/ DumpReadBack
    \/ CheckModelIntegration
    \/ CallModel
    \/ WriteSpreadsheet
    \/ PrintJson

Spec == Init /\ [][Next]_vars

\* ---------------------------------------------------- what the claims use
Terminal == pc \in {"done", "raised"}

KeyAbsent == PromptingImportRaises(api_key)

ProbeOutcome == IF calls = <<>> THEN "not_run" ELSE calls[1].outcome

Made(what) == \E i \in 1..Len(calls) : calls[i].what = what

MadeWith(what, outcome) ==
    \E i \in 1..Len(calls) : calls[i].what = what /\ calls[i].outcome = outcome

IsPrefix(s, t) == Len(s) <= Len(t) /\ \A i \in 1..Len(s) : s[i] = t[i]

Kinds == [i \in 1..Len(calls) |-> calls[i].kind]

Whats == [i \in 1..Len(calls) |-> calls[i].what]

\* the exit code of the first stage that failed
FirstFailureCode ==
    IF ProbeOutcome # "ok" THEN 2
    ELSE IF dump = "raised" THEN 1
    ELSE IF run_code_review = "None" THEN 3
    ELSE IF MadeWith("agent.run_sync", "raise") THEN 4
    ELSE IF workbook.isNone THEN 5
    ELSE 0

\* C1: every run of main ends by returning one exit code of 0..5, that of the
\* first stage that failed (2 probe, 1 flattening, 3 model integration
\* missing, 4 model call, 5 spreadsheet, 0 none), and no failure of an
\* external dependency leaves main as an exception.
C1_ExitCodeOfFirstFailure ==
    Terminal => /\ pc = "done"
                /\ exit_code = Some(FirstFailureCode)

\* C2: when repomix is missing at the start of the run, main returns 2, no
\* spreadsheet is written, no prompt is shown, no temporary file is created
\* and the model is not called.
C2_MissingToolReturns2 ==
    ProbeOutcome = "FileNotFoundError" =>
        /\ pc = "done"
        /\ exit_code = Some(2)
        /\ workbook.isNone
        /\ prompts = <<>>
        /\ tmp = "none"
        /\ model_call.isNone
        /\ Len(calls) = 1

C2_Witness == pc = "done" /\ ProbeOutcome = "FileNotFoundError"

\* C3: without --keep the temporary XML file is gone once dump_repo_to_xml
\* has finished, whichever way it finished; with --keep it is never deleted.
C3_TempFileRemoved ==
    /\ (dump \in {"returned", "raised"} /\ ~ns.keep) => tmp # "exists"
    /\ ns.keep => tmp # "deleted"

\* C4 as stated: with the API key absent the run ends with exit code 3 before
\* any prompt is shown and before the flattening tool is run.
C4_FailsFastBeforeAnyWork ==
    KeyAbsent =>
        /\ prompts = <<>>
        /\ ~Made("repomix --output")
        /\ Terminal => (pc = "done" /\ exit_code = Some(3))

\* C4 amended: with the API key absent (unset or empty) the model is never
\* called and no spreadsheet is written; a returned code is 2, 1 or 3; 3 is
\* returned only after the probe and the flattening step succeeded and the
\* prompts of an interactive run were shown, and it is what a run returns
\* once the flattening step succeeded.
C4_AbsentKeyDetectedLate ==
    KeyAbsent =>
        /\ model_call.isNone
        /\ ~Made("agent.run_sync")
        /\ workbook.isNone
        /\ pc = "done" => exit_code.val \in {1, 2, 3}
        /\ exit_code = Some(3) =>
              /\ MadeWith("repomix --version", "ok")
              /\ MadeWith("repomix --output", "ok")
              /\ dump = "returned"
              /\ ~ns.non_interactive =>
                    Len(prompts) = (IF ns.issues.isNone THEN 1 ELSE 0)
                                   + (IF ns.instructions.isNone THEN 1 ELSE 0)
        /\ (Terminal /\ dump = "returned") => exit_code = Some(3)

C4_Witness == KeyAbsent /\ exit_code = Some(3) /\ Len(prompts) = 2

\* C5 as stated: the external actions are a prefix of <subprocess call,
\* network call, file write>, each kind at most once.
C5_OneCallOfEachKind == IsPrefix(Kinds, <<"subprocess", "network", "file_write">>)

\* C5 amended: the external actions are a prefix of <repomix --version probe,
\* flattening subprocess, model call, spreadsheet write>, each at most once;
\* every action but the last succeeded (nothing runs after a failure and
\* nothing is retried); the model is called only after the flattening
\* subprocess succeeded and the file read back, the spreadsheet written only
\* after the model returned a response.
C5_CallsInFixedOrder ==
    /\ IsPrefix(Whats, <<"repomix --version", "repomix --output", "agent.run_sync",
                         "ExcelWriter">>)
    /\ \A i \in 1..(Len(calls) - 1) : calls[i].outcome = "ok"
    /\ Made("agent.run_sync") => (MadeWith("repomix --output", "ok") /\ dump = "returned")
    /\ Made("ExcelWriter") => (MadeWith("agent.run_sync", "ok") /\ ~review_response.isNone)

C5_Witness == pc = "done" /\ exit_code = Some(0) /\ Len(calls) = 4

\* s is the decimal text of n: an optional minus sign and digits without a
\* leading zero, whose value is n
IsDecimalTextOf(s, n) ==
    /\ IsIntLiteral(s)
    /\ StrToInt(s) = n
    /\ Head(s) # "+"
    /\ LET body == IF Head(s) = "-" THEN Tail(s) ELSE s
       IN  Len(body) > 1 => Head(body) # "0"
    /\ n = 0 => s = <<"0">>

\* C6: for every issue count N and every value of user_instructions, the
\* system prompt holds the decimal text of N in the sentence "You'll identify
\* N of the most impactful, actionable issues".
C6_PromptNamesIssueCount ==
    ~model_call.isNone =>
        LET p == model_call.val.system_prompt
            n == model_call.val.n_issues_to_surface
        IN  \E i \in 1..Len(p), j \in 1..Len(p) :
              /\ i < j
              /\ p[i] = "You'll identify "
              /\ p[j] = " of the most impactful, actionable issues"
              /\ IsDecimalTextOf(SubSeq(p, i + 1, j - 1), n)

C6_Witness ==
    /\ ~model_call.isNone
    /\ model_call.val.n_issues_to_surface = 0 - MaxCount
    /\ Truthy(model_call.val.user_instructions)

\* C7: with user instructions omitted (None or empty) the system prompt holds
\* neither the placeholder [USER_INSTRUCTIONS] nor the "# User Instructions"
\* block; with instructions given, the placeholder is replaced by a block
\* that holds the instructions verbatim (the only placeholders left are those
\* of the instructions' own text).
C7_PlaceholderReplaced ==
    ~model_call.isNone =>
        LET p == model_call.val.system_prompt
            ui == model_call.val.user_instructions
        IN  IF ui.isNone \/ ui.val = <<>>
            THEN /\ ~Contains(p, Placeholder)
                 /\ ~Contains(p, UserInstructionsHeading)
            ELSE /\ Contains(p, ClauseLead \o ui.val \o ClauseEnd)
                 /\ Count(p, Placeholder) = Count(ui.val, Placeholder)

C7_Witness ==
    /\ ~model_call.isNone
    /\ model_call.val.user_instructions = Some(<<>>)

\* the cell of data row r (sheet row r + 1) under the named column
DataCell(sheet, r, name) == sheet[r + 1][ColumnIndex(name)]

IssueFields ==
    {"category", "title", "severity", "location", "estimated_effort", "rationale",
     "detailed_description", "implementation_plan"}

\* C8: when the spreadsheet write succeeds for a response of k issues, the
\* Review sheet is one header row followed by k data rows, one per issue in
\* the order of the response, and the workbook has a second sheet, ABOUT,
\* whose "Issues Returned" is k.
C8_OneRowPerIssue ==
    ~workbook.isNone =>
        LET response == review_response.val
            k == Len(response)
            sheet == workbook.val.Review
        IN  /\ DOMAIN workbook.val = {"Review", "ABOUT"}
            /\ Len(sheet) = k + 1
            /\ \A c \in 1..Len(desired_columns) : sheet[1][c].value = <<desired_columns[c]>>
            /\ \A r \in 1..k : \A f \in IssueFields :
                  DataCell(sheet, r, f).value = response[r][f]
            /\ workbook.val.ABOUT.Issues_Returned = k

C8_Witness ==
    /\ ~workbook.isNone
    /\ Len(review_response.val) = 2
    /\ review_response.val[1] # review_response.val[2]

SeverityLabels == {<<"Low">>, <<"Medium">>, <<"High">>, <<"Critical">>}

EffortLabels == {<<"Low">>, <<"Medium">>, <<"High">>, <<"Very", " ", "High">>}

\* the palette colour of a label
ColourOf(label) ==
    CASE label = <<"Low">> -> "FFC6EFCE"
      [] label = <<"Medium">> -> "FFFFEB9C"
      [] label = <<"High">> -> "FFF8CBAD"
      [] label \in {<<"Critical">>, <<"Very", " ", "High">>} -> "FFFFC7CE"
      [] OTHER -> NoFill

HeaderUnfilled(sheet) == \A c \in 1..Len(desired_columns) : sheet[1][c].fill = NoFill

\* C9 as stated: a severity cell is filled, with its label's colour, exactly
\* when its value is exactly one of Low, Medium, High, Critical, an effort
\* cell exactly when its value is exactly one of Low, Medium, High, Very High;
\* header cells are never filled.
C9_FillOnExactLabelOfColumn ==
    ~workbook.isNone =>
        LET sheet == workbook.val.Review
        IN  /\ HeaderUnfilled(sheet)
            /\ \A r \in 1..(Len(sheet) - 1) :
                 LET sev == DataCell(sheet, r, "severity")
                     eff == DataCell(sheet, r, "estimated_effort")
                 IN  /\ sev.fill = IF sev.value \in SeverityLabels
                                   THEN ColourOf(sev.value) ELSE NoFill
                     /\ eff.fill = IF eff.value \in EffortLabels
                                   THEN ColourOf(eff.value) ELSE NoFill

\* C9 amended: a severity cell and an effort cell are each filled, with the
\* label's colour, exactly when the value with its surrounding whitespace
\* stripped is exactly one of the five labels of the one shared palette
\* (Low, Medium, High, Critical, Very High); any other value (an unknown
\* label, a label in another case) gets no fill, and neither do the header
\* cells and the cells of the other columns.
C9_FillOnStrippedPaletteLabel ==
    ~workbook.isNone =>
        LET sheet == workbook.val.Review
        IN  /\ HeaderUnfilled(sheet)
            /\ \A r \in 1..(Len(sheet) - 1) : \A c \in 1..Len(desired_columns) :
                 LET cell == sheet[r + 1][c]
                 IN  IF desired_columns[c] \in {"severity", "estimated_effort"}
                     THEN cell.fill = IF Strip(cell.value) \in SeverityLabels \cup EffortLabels
                                      THEN ColourOf(Strip(cell.value)) ELSE NoFill
                     ELSE cell.fill = NoFill

C9_Witness ==
    /\ ~workbook.isNone
    /\ \E r \in 1..(Len(workbook.val.Review) - 1) :
         /\ DataCell(workbook.val.Review, r, "severity").value = <<" ", "Low", " ">>
         /\ DataCell(workbook.val.Review, r, "severity").fill = "FFC6EFCE"
         /\ DataCell(workbook.val.Review, r, "estimated_effort").value = <<"low">>
         /\ DataCell(workbook.val.Review, r, "estimated_effort").fill = NoFill

\* C10: the issue count passed to run_code_review is a positive integer,
\* however it was obtained, and a value given by --issues is the one passed.
C10_PositiveIssueCount ==
    ~model_call.isNone =>
        /\ model_call.val.n_issues_to_surface > 0
        /\ ~ns.issues.isNone => model_call.val.n_issues_to_surface = ns.issues.val

====
